---- MODULE Spec2Model ----
(***************************************************************************)
(* Model of the secretfile resolution engine (src/secretfile).             *)
(*                                                                         *)
(* Python strings are sequences of one-character strings, so that split,  *)
(* rstrip, re.findall and str.replace are computed character by character. *)
(* Dictionaries are sequences of <<key, value>> pairs (insertion order is  *)
(* kept, assignment to an existing key keeps its position) or functions    *)
(* whose DOMAIN is the set of keys present.                                *)
(***************************************************************************)
EXTENDS Integers, Sequences, FiniteSets, TLC

VARIABLES
    environ,      \* os.environ: function, DOMAIN = the variables that are set
    file,         \* content of the file at _secretfile_path(): lines, or NoFile
    secrets,      \* content of the secret store behind the backend: path -> value
    _BACKEND,     \* module global _BACKEND: None or a backend
    secretfile,   \* Secretfile.secretfile singleton: None or its _secretfile dict
    _cache,       \* Secretfile._cache: key -> resolved value
    last,         \* the last call: operation, arguments, outcome, backend fetches
    firstBackend, \* history: argument of the first set_backend call (None before)
    resolved,     \* history: key -> backend fetches made by successful __getitem__(key)
    reads,        \* history: number of times the manifest file was read
    steps         \* number of operations performed so far

vars == <<environ, file, secrets, _BACKEND, secretfile, _cache, last,
          firstBackend, resolved, reads, steps>>

----------------------------------------------------------------------------
(* Bounds *)

MaxSteps == 3         \* operations per behaviour
MaxKeys == 2          \* keys requested in one getmany call
MaxTemplateLen == 4   \* characters of an address template in SpecParse
MaxLineLen == 4       \* characters of a manifest line in SpecTokens

----------------------------------------------------------------------------
(* Values *)

None == [kind |-> "none"]
Str(s) == [kind |-> "str", s |-> s]      \* a Python str
Map(m) == [kind |-> "map", m |-> m]      \* a Python dict field -> str
NoFile == [kind |-> "nofile"]            \* no file at the manifest path
File(lines) == [kind |-> "file", lines |-> lines]   \* a text file

\* outcome of a call or of a helper: status "ok" or the exception raised
Ok(v) == [status |-> "ok", value |-> v]
Raise(e) == [status |-> e, value |-> None]

----------------------------------------------------------------------------
(* Python string primitives *)

\* [A-Za-z0-9_] restricted to the characters the model uses
NameChars == {"A", "B", "F", "G", "_"}
Whitespace == {" ", "\t", "\n"}

\* str.startswith(prefix)
StartsWith(s, prefix) ==
    /\ Len(s) >= Len(prefix)
    /\ SubSeq(s, 1, Len(prefix)) = prefix

\* str.rstrip()
RECURSIVE rstrip(_)
rstrip(s) ==
    IF s # <<>> /\ s[Len(s)] \in Whitespace
    THEN rstrip(SubSeq(s, 1, Len(s) - 1))
    ELSE s

\* str.split(sep) for a one-character separator: one more part than separators
RECURSIVE split(_, _)
split(s, sep) ==
    IF \E i \in 1..Len(s) : s[i] = sep
    THEN LET i == CHOOSE i \in 1..Len(s) :
                      s[i] = sep /\ \A j \in 1..(i - 1) : s[j] # sep
         IN  <<SubSeq(s, 1, i - 1)>> \o split(SubSeq(s, i + 1, Len(s)), sep)
    ELSE <<s>>

\* last index of the maximal run of name characters starting at i
RECURSIVE RunEnd(_, _)
RunEnd(s, i) ==
    IF i < Len(s) /\ s[i + 1] \in NameChars THEN RunEnd(s, i + 1) ELSE i

\* re.findall(r"\$([A-Za-z0-9_]+)", s): the names, left to right, from index i
RECURSIVE findall(_, _)
findall(s, i) ==
    IF i > Len(s) THEN <<>>
    ELSE IF s[i] = "$" /\ i < Len(s) /\ s[i + 1] \in NameChars
         THEN LET j == RunEnd(s, i + 1)
              IN  <<SubSeq(s, i + 1, j)>> \o findall(s, j + 1)
         ELSE findall(s, i + 1)

\* str.replace(old, new): every non-overlapping occurrence, leftmost first
RECURSIVE replace(_, _, _)
replace(s, old, new) ==
    IF Len(s) < Len(old) \/ old = <<>> THEN s
    ELSE IF SubSeq(s, 1, Len(old)) = old
         THEN new \o replace(SubSeq(s, Len(old) + 1, Len(s)), old, new)
         ELSE <<s[1]>> \o replace(Tail(s), old, new)

----------------------------------------------------------------------------
(* Ordered dict: sequence of <<key, value>> pairs *)

DictHas(d, k) == \E i \in 1..Len(d) : d[i][1] = k
DictGet(d, k) == d[CHOOSE i \in 1..Len(d) : d[i][1] = k][2]
DictKeys(d) == [i \in 1..Len(d) |-> d[i][1]]
\* d[k] = v moving an existing key to the end
DictSetMovingToEnd(d, k, v) ==
    Append(SelectSeq(d, LAMBDA e : e[1] # k), <<k, v>>)

\* d[k] = v
DictSet(d, k, v) ==
    IF DictHas(d, k)
    THEN [i \in 1..Len(d) |-> IF d[i][1] = k THEN <<k, v>> ELSE d[i]]
    ELSE Append(d, <<k, v>>)

\* function dict: f[k] = v
Put(f, k, v) == [x \in DOMAIN f \cup {k} |-> IF x = k THEN v ELSE f[x]]

----------------------------------------------------------------------------
(* Manifest parser *)

\* the loop of _replace_env over the names found in the original path
RECURSIVE replace_loop(_, _, _)
replace_loop(env_vars, path, env) ==
    IF env_vars = <<>> THEN Ok(path)
    ELSE IF Head(env_vars) \notin DOMAIN env
         THEN Raise("EnvVarNotSet")
         ELSE replace_loop(Tail(env_vars),
                           replace(path, <<"$">> \o Head(env_vars), env[Head(env_vars)]),
                           env)

_replace_env(key, path, env) == replace_loop(findall(path, 1), path, env)

\* the loop of read_secretfile over the lines, dict being the entries so far
RECURSIVE read_lines(_, _, _)
read_lines(lines, dict, env) ==
    IF lines = <<>> THEN Ok(dict)
    ELSE IF StartsWith(Head(lines), <<"#">>)
         THEN read_lines(Tail(lines), dict, env)
         ELSE LET parts == split(rstrip(Head(lines)), " ")
              IN  IF Len(parts) # 2 THEN Raise("ValueError")
                  ELSE LET r == _replace_env(parts[1], parts[2], env)
                       IN  IF r.status # "ok" THEN r
                           ELSE read_lines(Tail(lines),
                                           DictSet(dict, parts[1], r.value), env)

read_secretfile(fp, env) ==
    IF fp = NoFile THEN Raise("FileNotFoundError")
    ELSE read_lines(fp.lines, <<>>, env)

----------------------------------------------------------------------------
(* Backends *)

VaultBackend == [kind |-> "VaultBackend"]
MemoryBackend == [kind |-> "MemoryBackend"]

\* SecretBackend.get(path): get_secret, then the identity deserialize_secret.
\* MemoryBackend indexes its dict (KeyError), vault_get_path raises Exception.
BackendGet(backend, store, path) ==
    IF path \in DOMAIN store THEN Ok(store[path])
    ELSE IF backend = MemoryBackend THEN Raise("KeyError")
         ELSE Raise("BackendError")

\* pathval[field] in Python
Index(pathval, field) ==
    IF pathval.kind = "map"
    THEN IF field \in DOMAIN pathval.m THEN Ok(Str(pathval.m[field]))
         ELSE Raise("KeyError")
    ELSE Raise("TypeError")

----------------------------------------------------------------------------
(* Resolution engine *)

Secretfile(dict) == [kind |-> "Secretfile", _secretfile |-> dict]

\* outcome of a resolution: status, value, the cache afterwards and the
\* backend fetches attempted, each tagged with the key being resolved
Res(status, value, cache, fetches) ==
    [status |-> status, value |-> value, cache |-> cache, fetches |-> fetches]

\* __getitem__ without the lookup in the local cache
__getitem__Uncached(sf, key, env, cache, backend, store) ==
    IF key \in DOMAIN env THEN Res("ok", Str(env[key]), cache, <<>>)
    ELSE IF ~DictHas(sf, key) THEN Res("KeyError", None, cache, <<>>)
    ELSE
      LET parts == split(DictGet(sf, key), ":")
          path == parts[1]
          fetch == <<[key |-> key, path |-> path]>>
      IN  IF Len(parts) > 2 THEN Res("ValueError", None, cache, <<>>)
          ELSE IF backend = None THEN Res("BackendNotSet", None, cache, <<>>)
          ELSE
            LET r == BackendGet(backend, store, path)
                var == IF Len(parts) = 2 /\ parts[2] # <<>>
                       THEN Index(r.value, parts[2])
                       ELSE r
            IN  IF r.status # "ok" THEN Res(r.status, None, cache, fetch)
                ELSE IF var.status # "ok" THEN Res(var.status, None, cache, fetch)
                ELSE Res("ok", var.value, Put(cache, key, var.value), fetch)

\* __getitem__ unpacking only the first two parts of the address
__getitem__Truncating(sf, key, env, cache, backend, store) ==
    IF key \in DOMAIN env THEN Res("ok", Str(env[key]), cache, <<>>)
    ELSE IF key \in DOMAIN cache THEN Res("ok", cache[key], cache, <<>>)
    ELSE IF ~DictHas(sf, key) THEN Res("KeyError", None, cache, <<>>)
    ELSE
      LET parts == split(DictGet(sf, key), ":")
          path == parts[1]
          fetch == <<[key |-> key, path |-> path]>>
      IN  IF backend = None THEN Res("BackendNotSet", None, cache, <<>>)
          ELSE
            LET r == BackendGet(backend, store, path)
                var == IF Len(parts) >= 2 /\ parts[2] # <<>>
                       THEN Index(r.value, parts[2])
                       ELSE r
            IN  IF r.status # "ok" THEN Res(r.status, None, cache, fetch)
                ELSE IF var.status # "ok" THEN Res(var.status, None, cache, fetch)
                ELSE Res("ok", var.value, Put(cache, key, var.value), fetch)

\* __getitem__ storing in the cache a value taken from the environment
__getitem__CachingEnviron(sf, key, env, cache, backend, store) ==
    IF key \in DOMAIN env
    THEN Res("ok", Str(env[key]), Put(cache, key, Str(env[key])), <<>>)
    ELSE IF key \in DOMAIN cache THEN Res("ok", cache[key], cache, <<>>)
    ELSE IF ~DictHas(sf, key) THEN Res("KeyError", None, cache, <<>>)
    ELSE
      LET parts == split(DictGet(sf, key), ":")
          path == parts[1]
          fetch == <<[key |-> key, path |-> path]>>
      IN  IF Len(parts) > 2 THEN Res("ValueError", None, cache, <<>>)
          ELSE IF backend = None THEN Res("BackendNotSet", None, cache, <<>>)
          ELSE
            LET r == BackendGet(backend, store, path)
                var == IF Len(parts) = 2 /\ parts[2] # <<>>
                       THEN Index(r.value, parts[2])
                       ELSE r
            IN  IF r.status # "ok" THEN Res(r.status, None, cache, fetch)
                ELSE IF var.status # "ok" THEN Res(var.status, None, cache, fetch)
                ELSE Res("ok", var.value, Put(cache, key, var.value), fetch)

\* Secretfile.__getitem__(key) on the manifest dict sf
__getitem__(sf, key, env, cache, backend, store) ==
    IF key \in DOMAIN env THEN Res("ok", Str(env[key]), cache, <<>>)
    ELSE IF key \in DOMAIN cache THEN Res("ok", cache[key], cache, <<>>)
    ELSE IF ~DictHas(sf, key) THEN Res("KeyError", None, cache, <<>>)
    ELSE
      LET parts == split(DictGet(sf, key), ":")
          path == parts[1]
          fetch == <<[key |-> key, path |-> path]>>
      IN  IF Len(parts) > 2 THEN Res("ValueError", None, cache, <<>>)
          ELSE IF backend = None THEN Res("BackendNotSet", None, cache, <<>>)
          ELSE
            LET r == BackendGet(backend, store, path)
                \* "if inner_key:" is false for None and for the empty string
                var == IF Len(parts) = 2 /\ parts[2] # <<>>
                       THEN Index(r.value, parts[2])
                       ELSE r
            IN  IF r.status # "ok" THEN Res(r.status, None, cache, fetch)
                ELSE IF var.status # "ok" THEN Res(var.status, None, cache, fetch)
                ELSE Res("ok", var.value, Put(cache, key, var.value), fetch)

\* the loop of _get_group fetching the path of every key anew, never looking in
\* local_cache
RECURSIVE get_group_loopRefetching(_, _, _, _, _, _, _, _)
get_group_loopRefetching(sf, keys, env, backend, store, local_cache, values, fetches) ==
    IF keys = <<>> THEN Res("ok", [kind |-> "dict", items |-> values], local_cache, fetches)
    ELSE
      LET key == Head(keys)
          rest == Tail(keys)
      IN
      IF key \in DOMAIN env /\ env[key] # <<>>
      THEN get_group_loopRefetching(sf, rest, env, backend, store, local_cache,
                                    DictSet(values, key, Str(env[key])), fetches)
      ELSE IF ~DictHas(sf, key) THEN Res("KeyError", None, local_cache, fetches)
      ELSE
        LET parts == split(DictGet(sf, key), ":")
            path == parts[1]
            field == parts[2]
            fetches2 == Append(fetches, [key |-> key, path |-> path])
        IN  IF Len(parts) # 2 THEN Res("ValueError", None, local_cache, fetches)
            ELSE IF backend = None
                 THEN Res("AttributeError", None, local_cache, fetches)
            ELSE
              LET r == BackendGet(backend, store, path)
              IN  IF r.status # "ok" THEN Res(r.status, None, local_cache, fetches2)
                  ELSE
                    LET var == Index(r.value, field)
                        lc2 == Put(local_cache, path, r.value)
                    IN  IF var.status # "ok"
                        THEN Res(var.status, None, lc2, fetches2)
                        ELSE get_group_loopRefetching(sf, rest, env, backend, store, lc2,
                                            DictSet(values, key, var.value), fetches2)

\* the loop of _get_group: local_cache maps path -> fetched value, values is
\* the result dict so far
RECURSIVE get_group_loop(_, _, _, _, _, _, _, _)
get_group_loop(sf, keys, env, backend, store, local_cache, values, fetches) ==
    IF keys = <<>> THEN Res("ok", [kind |-> "dict", items |-> values], local_cache, fetches)
    ELSE
      LET key == Head(keys)
          rest == Tail(keys)
      IN
      \* "if not var:" is true for an unset variable and for the empty string
      IF key \in DOMAIN env /\ env[key] # <<>>
      THEN get_group_loop(sf, rest, env, backend, store, local_cache,
                          DictSet(values, key, Str(env[key])), fetches)
      ELSE IF ~DictHas(sf, key) THEN Res("KeyError", None, local_cache, fetches)
      ELSE
        LET parts == split(DictGet(sf, key), ":")
            path == parts[1]
            field == parts[2]
            hit == path \in DOMAIN local_cache
            fetches2 == IF hit THEN fetches
                        ELSE Append(fetches, [key |-> key, path |-> path])
        IN  IF Len(parts) # 2 THEN Res("ValueError", None, local_cache, fetches)
            ELSE IF ~hit /\ backend = None
                 THEN Res("AttributeError", None, local_cache, fetches)
            ELSE
              LET r == IF hit THEN Ok(local_cache[path])
                       ELSE BackendGet(backend, store, path)
              IN  IF r.status # "ok" THEN Res(r.status, None, local_cache, fetches2)
                  ELSE
                    LET var == Index(r.value, field)
                        lc2 == Put(local_cache, path, r.value)
                    IN  IF var.status # "ok"
                        THEN Res(var.status, None, lc2, fetches2)
                        ELSE get_group_loop(sf, rest, env, backend, store, lc2,
                                            DictSet(values, key, var.value), fetches2)

_get_group(sf, keys, env, backend, store) ==
    get_group_loop(sf, keys, env, backend, store, <<>>, <<>>, <<>>)

\* the generator of Secretfile.items, run to its end or to the first error:
\* yielded is the pairs produced so far, hits the keys resolved from the backend
RECURSIVE items_loop(_, _, _, _, _, _, _, _, _)
items_loop(sf, keys, env, cache, backend, store, yielded, fetches, hits) ==
    IF keys = <<>>
    THEN [status |-> "ok", yielded |-> yielded, cache |-> cache,
          fetches |-> fetches, hits |-> hits]
    ELSE
      LET r == __getitem__(sf, Head(keys), env, cache, backend, store)
      IN  IF r.status # "ok"
          THEN [status |-> r.status, yielded |-> yielded, cache |-> r.cache,
                fetches |-> fetches \o r.fetches, hits |-> hits]
          ELSE items_loop(sf, Tail(keys), env, r.cache, backend, store,
                          Append(yielded, <<Head(keys), r.value>>),
                          fetches \o r.fetches,
                          IF r.fetches # <<>> THEN Append(hits, Head(keys)) ELSE hits)

----------------------------------------------------------------------------
(* The universe of the engine specification *)

A == <<"A">>
B == <<"B">>
Keys == {A, B}
VAULT_ADDR == <<"VAULT_ADDR">>
EnvVals == {<<>>, <<"p">>}
Defaults == {None, Str(<<"d">>)}
Backends == {VaultBackend, MemoryBackend}

p == <<"p">>
q == <<"q">>
f == <<"f">>
g == <<"g">>

\* contents of the secret store
Store1 == (p :> Map(f :> <<"1">> @@ g :> <<"2">>)) @@ (q :> Map(f :> <<"3">>))
Store2 == (p :> Map(f :> <<"4">> @@ g :> <<"5">>)) @@ (q :> Map(f :> <<"3">>))
Store3 == (p :> Str(<<"s">>))
Store4 == (p :> Map(g :> <<"2">>))
Stores == {Store1, Store2, Store3, Store4}

\* manifest lines
LineA_p     == <<"A", " ", "p", "\n">>
LineA_pf    == <<"A", " ", "p", ":", "f", "\n">>
LineB_pg    == <<"B", " ", "p", ":", "g", "\n">>
LineB_qf    == <<"B", " ", "q", ":", "f", "\n">>
LineA_pEmpty == <<"A", " ", "p", ":", "\n">>
LineA_pfg   == <<"A", " ", "p", ":", "f", ":", "g", "\n">>
LineComment == <<"#", "B", " ", "p", ":", "f", "\n">>
LineOneTok  == <<"A", "\n">>
LineLeadSp  == <<" ", "B", "\n">>
LineA_Bf    == <<"A", " ", "$", "B", ":", "f", "\n">>

\* manifest files: NoFile, or the lines of the file
Manifests == {
    NoFile,
    File(<<LineA_pf, LineB_pg>>),             \* two keys sharing path p
    File(<<LineB_qf, LineA_pf>>),             \* two keys on two paths
    File(<<LineA_p>>),                        \* address without a colon
    File(<<LineA_pEmpty, LineB_pg>>),         \* address with an empty field
    File(<<LineB_pg, LineA_pfg>>),            \* address with two colons
    File(<<LineComment, LineA_pf>>),          \* a comment line
    File(<<LineA_pf, LineOneTok>>),           \* a one-token line after a good line
    File(<<LineA_pf, LineLeadSp>>),           \* a one-token line with a leading space
    File(<<LineB_pg, LineA_Bf>>),             \* an interpolated address
    File(<<LineA_pf, LineB_pg, LineA_p>>) }   \* a duplicate key

\* every os.environ over the keys, with or without VAULT_ADDR
Environs ==
    UNION { [D -> EnvVals] : D \in SUBSET Keys }
EnvironsAtImport ==
    Environs \cup { e @@ (VAULT_ADDR :> <<"v">>) : e \in Environs }

RECURSIVE SeqsUpTo(_, _)
SeqsUpTo(S, n) ==
    IF n = 0 THEN {<<>>}
    ELSE LET shorter == SeqsUpTo(S, n - 1)
         IN  shorter \cup { Append(s, x) : s \in shorter, x \in S }

KeyLists == SeqsUpTo(Keys, MaxKeys)

\* the --ignore options of the read command
Ignores == {<<>>, <<A>>, <<B>>, <<A, B>>}

----------------------------------------------------------------------------
(* State *)

\* a call as its caller sees it (status, value, yielded) and as it ran: raw is
\* the outcome of __getitem__ before "except KeyError", fetches the backend
\* fetches attempted, loaded whether the manifest file was read
Call(op, keys, default, status, value, yielded, fetches, loaded, raw) ==
    [op |-> op, keys |-> keys, default |-> default, status |-> status,
     value |-> value, yielded |-> yielded, fetches |-> fetches, loaded |-> loaded,
     raw |-> raw]

\* module import: the VAULT_ADDR auto-selection calls set_backend(VaultBackend())
Init ==
    /\ environ \in EnvironsAtImport
    /\ file \in Manifests
    /\ secrets \in Stores
    /\ _BACKEND = IF VAULT_ADDR \in DOMAIN environ THEN VaultBackend ELSE None
    /\ firstBackend = _BACKEND
    /\ secretfile = None
    /\ _cache = <<>>
    /\ last = Call("import", <<>>, None, "ok", None, <<>>, <<>>, FALSE, "ok")
    /\ resolved = [k \in Keys |-> 0]
    /\ reads = 0
    /\ steps = 0

Step == steps < MaxSteps /\ steps' = steps + 1

\* fetch() constructing a Secretfile, so reading the manifest, on every call
fetchReloading ==
    LET r == read_secretfile(file, environ)
    IN  IF r.status = "ok"
        THEN [status |-> "ok", secretfile |-> Secretfile(r.value), loaded |-> TRUE]
        ELSE [status |-> r.status, secretfile |-> None, loaded |-> TRUE]

\* Secretfile.fetch(): the singleton, constructed (manifest read) when unset
fetch ==
    IF secretfile # None
    THEN [status |-> "ok", secretfile |-> secretfile, loaded |-> FALSE]
    ELSE LET r == read_secretfile(file, environ)
         IN  IF r.status = "ok"
             THEN [status |-> "ok", secretfile |-> Secretfile(r.value), loaded |-> TRUE]
             ELSE [status |-> r.status, secretfile |-> None, loaded |-> TRUE]

Bump(h, keys) == [k \in DOMAIN h |-> h[k] + Cardinality({i \in 1..Len(keys) : keys[i] = k})]

----------------------------------------------------------------------------
(* Operations *)

\* Secretfile.fetch() called directly
Fetch ==
    /\ Step
    /\ LET fr == fetch
       IN  /\ secretfile' = fr.secretfile
           /\ reads' = reads + (IF fr.loaded THEN 1 ELSE 0)
           /\ last' = Call("fetch", <<>>, None, fr.status, None, <<>>, <<>>, fr.loaded,
                        fr.status)
    /\ UNCHANGED <<environ, file, secrets, _BACKEND, _cache, firstBackend, resolved>>

\* Secretfile.get(key, default)
Get(key, default) ==
    /\ Step
    /\ LET fr == fetch
           r == __getitem__(fr.secretfile._secretfile, key, environ, _cache,
                            _BACKEND, secrets)
       IN  /\ secretfile' = fr.secretfile
           /\ reads' = reads + (IF fr.loaded THEN 1 ELSE 0)
           /\ IF fr.status # "ok"
              THEN /\ last' = Call("get", <<key>>, default, fr.status, None, <<>>,
                                   <<>>, fr.loaded, fr.status)
                   /\ UNCHANGED <<_cache, resolved>>
              ELSE /\ last' = Call("get", <<key>>, default,
                                   IF r.status = "KeyError" THEN "ok" ELSE r.status,
                                   IF r.status = "KeyError" THEN default ELSE r.value,
                                   <<>>, r.fetches, fr.loaded, r.status)
                   /\ _cache' = r.cache
                   /\ resolved' = IF r.status = "ok" /\ r.fetches # <<>>
                                  THEN Bump(resolved, <<key>>)
                                  ELSE resolved
    /\ UNCHANGED <<environ, file, secrets, _BACKEND, firstBackend>>

\* the result dict d stored into the cache c
RECURSIVE StoreAll(_, _)
StoreAll(c, d) ==
    IF d = <<>> THEN c ELSE StoreAll(Put(c, Head(d)[1], Head(d)[2]), Tail(d))

\* getmany keeping what it resolved in Secretfile._cache
GetManyCaching(keys) ==
    /\ Step
    /\ LET fr == fetch
           r == _get_group(fr.secretfile._secretfile, keys, environ, _BACKEND, secrets)
       IN  /\ secretfile' = fr.secretfile
           /\ reads' = reads + (IF fr.loaded THEN 1 ELSE 0)
           /\ last' = IF fr.status # "ok"
                      THEN Call("getmany", keys, None, fr.status, None, <<>>, <<>>,
                                fr.loaded, fr.status)
                      ELSE Call("getmany", keys, None, r.status, r.value, <<>>,
                                r.fetches, fr.loaded, r.status)
           /\ _cache' = IF fr.status = "ok" /\ r.status = "ok"
                        THEN StoreAll(_cache, r.value.items)
                        ELSE _cache
    /\ UNCHANGED <<environ, file, secrets, _BACKEND, firstBackend, resolved>>

\* Secretfile.getmany(*keys)
GetMany(keys) ==
    /\ Step
    /\ LET fr == fetch
           r == _get_group(fr.secretfile._secretfile, keys, environ, _BACKEND, secrets)
       IN  /\ secretfile' = fr.secretfile
           /\ reads' = reads + (IF fr.loaded THEN 1 ELSE 0)
           /\ last' = IF fr.status # "ok"
                      THEN Call("getmany", keys, None, fr.status, None, <<>>, <<>>,
                                fr.loaded, fr.status)
                      ELSE Call("getmany", keys, None, r.status, r.value, <<>>,
                                r.fetches, fr.loaded, r.status)
    /\ UNCHANGED <<environ, file, secrets, _BACKEND, _cache, firstBackend, resolved>>

\* Secretfile.items(), the generator consumed to its end or to the first error
Items ==
    /\ Step
    /\ LET fr == fetch
           sf == fr.secretfile._secretfile
           r == items_loop(sf, DictKeys(sf), environ, _cache, _BACKEND, secrets,
                           <<>>, <<>>, <<>>)
       IN  /\ secretfile' = fr.secretfile
           /\ reads' = reads + (IF fr.loaded THEN 1 ELSE 0)
           /\ IF fr.status # "ok"
              THEN /\ last' = Call("items", <<>>, None, fr.status, None, <<>>, <<>>,
                                   fr.loaded, fr.status)
                   /\ UNCHANGED <<_cache, resolved>>
              ELSE /\ last' = Call("items", DictKeys(sf), None, r.status, None,
                                   r.yielded, r.fetches, fr.loaded, r.status)
                   /\ _cache' = r.cache
                   /\ resolved' = Bump(resolved, r.hits)
    /\ UNCHANGED <<environ, file, secrets, _BACKEND, firstBackend>>

\* click.echo(f"export {key}={value}"): the line printed
Export(key, value) == [export |-> key, value |-> value]

\* the loop of the read command over Secretfile.items(): each key is resolved
\* by the generator, then skipped if in ignore, else printed
RECURSIVE read_loop(_, _, _, _, _, _, _, _, _, _)
read_loop(sf, keys, ignore, env, cache, backend, store, printed, fetches, hits) ==
    IF keys = <<>>
    THEN [status |-> "ok", printed |-> printed, cache |-> cache,
          fetches |-> fetches, hits |-> hits]
    ELSE
      LET key == Head(keys)
          r == __getitem__(sf, key, env, cache, backend, store)
      IN  IF r.status # "ok"
          THEN [status |-> r.status, printed |-> printed, cache |-> r.cache,
                fetches |-> fetches \o r.fetches, hits |-> hits]
          ELSE read_loop(sf, Tail(keys), ignore, env, r.cache, backend, store,
                         IF \E i \in 1..Len(ignore) : ignore[i] = key
                         THEN printed
                         ELSE Append(printed, Export(key, r.value)),
                         fetches \o r.fetches,
                         IF r.fetches # <<>> THEN Append(hits, key) ELSE hits)

\* the command "read" of the front end with its --ignore options: in last,
\* keys holds the ignored keys and yielded the lines printed
Read(ignore) ==
    /\ Step
    /\ LET fr == fetch
           sf == fr.secretfile._secretfile
           r == read_loop(sf, DictKeys(sf), ignore, environ, _cache, _BACKEND,
                          secrets, <<>>, <<>>, <<>>)
       IN  /\ secretfile' = fr.secretfile
           /\ reads' = reads + (IF fr.loaded THEN 1 ELSE 0)
           /\ IF fr.status # "ok"
              THEN /\ last' = Call("read", ignore, None, fr.status, None, <<>>, <<>>,
                                   fr.loaded, fr.status)
                   /\ UNCHANGED <<_cache, resolved>>
              ELSE /\ last' = Call("read", ignore, None, r.status, None,
                                   r.printed, r.fetches, fr.loaded, r.status)
                   /\ _cache' = r.cache
                   /\ resolved' = Bump(resolved, r.hits)
    /\ UNCHANGED <<environ, file, secrets, _BACKEND, firstBackend>>

\* set_backend without the "already set" check
set_backendOverwriting(backend) ==
    /\ Step
    /\ last' = Call("set_backend", <<>>, None, "ok", backend, <<>>, <<>>, FALSE, "ok")
    /\ _BACKEND' = backend
    /\ firstBackend' = IF firstBackend = None THEN backend ELSE firstBackend
    /\ UNCHANGED <<environ, file, secrets, secretfile, _cache, resolved, reads>>

\* set_backend(backend)
set_backend(backend) ==
    /\ Step
    /\ IF _BACKEND # None
       THEN /\ last' = Call("set_backend", <<>>, None, "BackendAlreadySet", backend,
                            <<>>, <<>>, FALSE, "BackendAlreadySet")
            /\ UNCHANGED _BACKEND
       ELSE /\ last' = Call("set_backend", <<>>, None, "ok", backend, <<>>, <<>>, FALSE,
                            "ok")
            /\ _BACKEND' = backend
    /\ firstBackend' = IF firstBackend = None THEN backend ELSE firstBackend
    /\ UNCHANGED <<environ, file, secrets, secretfile, _cache, resolved, reads>>

\* the host sets or deletes an environment variable
SetEnv(key, val) ==
    /\ Step
    /\ IF key \in DOMAIN environ THEN environ[key] # val ELSE TRUE
    /\ environ' = Put(environ, key, val)
    /\ last' = Call("setenv", <<key>>, None, "ok", Str(val), <<>>, <<>>, FALSE, "ok")
    /\ UNCHANGED <<file, secrets, _BACKEND, secretfile, _cache, firstBackend,
                   resolved, reads>>

DelEnv(key) ==
    /\ Step
    /\ key \in DOMAIN environ
    /\ environ' = [k \in DOMAIN environ \ {key} |-> environ[k]]
    /\ last' = Call("delenv", <<key>>, None, "ok", None, <<>>, <<>>, FALSE, "ok")
    /\ UNCHANGED <<file, secrets, _BACKEND, secretfile, _cache, firstBackend,
                   resolved, reads>>

\* the content of the secret store changes
StoreWrite(store) ==
    /\ Step
    /\ store # secrets
    /\ secrets' = store
    /\ last' = Call("storewrite", <<>>, None, "ok", None, <<>>, <<>>, FALSE, "ok")
    /\ UNCHANGED <<environ, file, _BACKEND, secretfile, _cache, firstBackend,
                   resolved, reads>>

Next ==
    \/ Fetch
    \/ \E key \in Keys, default \in Defaults : Get(key, default)
    \/ \E keys \in KeyLists : GetMany(keys)
    \/ Items
    \/ \E ignore \in Ignores : Read(ignore)
    \/ \E backend \in Backends : set_backend(backend)
    \/ \E key \in Keys, val \in EnvVals : SetEnv(key, val)
    \/ \E key \in Keys : DelEnv(key)
    \/ \E store \in Stores : StoreWrite(store)

Spec == Init /\ [][Next]_vars

\* Secretfile.getmany(*keys) with the content of the secret store changing
\* while _get_group is in its loop: the first n keys are resolved against the
\* store as it was, the others against the store as written
GetManyDuringWrite(keys, n, store) ==
    /\ Step
    /\ store # secrets
    /\ n \in 1..(Len(keys) - 1)
    /\ secrets' = store
    /\ LET fr == fetch
           sf == fr.secretfile._secretfile
           r1 == get_group_loop(sf, SubSeq(keys, 1, n), environ, _BACKEND, secrets,
                                <<>>, <<>>, <<>>)
           r == IF r1.status # "ok" THEN r1
                ELSE get_group_loop(sf, SubSeq(keys, n + 1, Len(keys)), environ,
                                    _BACKEND, store, r1.cache, r1.value.items,
                                    r1.fetches)
       IN  /\ secretfile' = fr.secretfile
           /\ reads' = reads + (IF fr.loaded THEN 1 ELSE 0)
           /\ last' = IF fr.status # "ok"
                      THEN Call("getmany+storewrite", keys, None, fr.status, None, <<>>,
                                <<>>, fr.loaded, fr.status)
                      ELSE Call("getmany+storewrite", keys, None, r.status, r.value,
                                <<>>, r.fetches, fr.loaded, r.status)
    /\ UNCHANGED <<environ, file, _BACKEND, _cache, firstBackend, resolved>>

\* getmany calls with a store write falling inside the call
NextWrite ==
    \/ \E backend \in Backends : set_backend(backend)
    \/ \E keys \in KeyLists, n \in 1..MaxKeys, store \in Stores :
          GetManyDuringWrite(keys, n, store)

SpecWrite == Init /\ [][NextWrite]_vars

\* the host rewrites the manifest file
FileWrite(fp) ==
    /\ Step
    /\ fp # file
    /\ file' = fp
    /\ last' = Call("filewrite", <<>>, None, "ok", None, <<>>, <<>>, FALSE, "ok")
    /\ UNCHANGED <<environ, secrets, _BACKEND, secretfile, _cache, firstBackend,
                   resolved, reads>>

\* get, getmany and items calls in a process whose manifest file and
\* environment change between the calls
NextManifest ==
    \/ \E key \in Keys, default \in Defaults : Get(key, default)
    \/ \E keys \in KeyLists : GetMany(keys)
    \/ Items
    \/ \E key \in Keys, val \in EnvVals : SetEnv(key, val)
    \/ \E key \in Keys : DelEnv(key)
    \/ \E fp \in Manifests : FileWrite(fp)

SpecManifest == Init /\ [][NextManifest]_vars

TypeOK ==
    /\ steps \in 0..MaxSteps
    /\ secretfile = None \/ secretfile.kind = "Secretfile"
    /\ _BACKEND = None \/ _BACKEND \in Backends

----------------------------------------------------------------------------
(* The manifest parser on its own: one line "K <template>", every template *)
(* over TemplateChars, every environment over ParseNames                   *)

K == <<"K">>
F == <<"F">>
G == <<"G">>
FG == <<"F", "G">>
TemplateChars == {"$", "F", "G", "/"}
ParseNames == {F, G, FG}
ParseVals == {<<"x">>, <<"$", "G">>}
\* a line with an empty template has one token and is no manifest entry
Templates == SeqsUpTo(TemplateChars, MaxTemplateLen) \ {<<>>}
ParseEnvirons == UNION { [D -> ParseVals] : D \in SUBSET ParseNames }

InitParse ==
    /\ environ \in ParseEnvirons
    /\ file \in { File(<<K \o <<" ">> \o t \o <<"\n">>>>) : t \in Templates }
    /\ secrets = Store1
    /\ _BACKEND = None
    /\ firstBackend = None
    /\ secretfile = None
    /\ _cache = <<>>
    /\ last = Call("import", <<>>, None, "ok", None, <<>>, <<>>, FALSE, "ok")
    /\ resolved = [k \in Keys |-> 0]
    /\ reads = 0
    /\ steps = 0

NextParse == Fetch

SpecParse == InitParse /\ [][NextParse]_vars

\* the address template of the single line of the file
TemplateOf(fp) ==
    LET line == rstrip(fp.lines[1]) IN SubSeq(line, Len(K) + 2, Len(line))

\* the template with every reference $NAME (NAME the maximal run of name
\* characters) replaced by the value of the variable NAME, left to right,
\* nothing substituted being looked at again
RECURSIVE Interpolate(_, _, _)
Interpolate(s, i, env) ==
    IF i > Len(s) THEN <<>>
    ELSE IF s[i] = "$" /\ i < Len(s) /\ s[i + 1] \in NameChars
         THEN LET j == RunEnd(s, i + 1)
              IN  env[SubSeq(s, i + 1, j)] \o Interpolate(s, j + 1, env)
         ELSE <<s[i]>> \o Interpolate(s, i + 1, env)

AllReferencesSet(s, env) ==
    \A i \in 1..Len(findall(s, 1)) : findall(s, 1)[i] \in DOMAIN env

----------------------------------------------------------------------------
(* Claims *)

IsCall(op) == last.op = op
\* the step is a call of op
IsStep(op) == steps' = steps + 1 /\ last'.op = op

AddressOf(key) == DictGet(secretfile._secretfile, key)
InManifest(key) == secretfile # None /\ DictHas(secretfile._secretfile, key)
AddressParts(key) == split(AddressOf(key), ":")

\* the backend fetches of the last call made while resolving key
FetchesFor(key) == { i \in 1..Len(last.fetches) : last.fetches[i].key = key }
\* the backend fetches of the last call for a storage path
FetchesOf(path) == { i \in 1..Len(last.fetches) : last.fetches[i].path = path }

\* C1: whenever get(key) was called with key set in the environment, the
\* call returned exactly the environment value and fetched nothing from the
\* backend, whatever the manifest file is (missing, malformed, without key).
C1_EnvironmentAlwaysWins ==
    (IsCall("get") /\ last.keys[1] \in DOMAIN environ)
        => /\ last.status = "ok"
           /\ last.value = Str(environ[last.keys[1]])
           /\ last.fetches = <<>>

\* C6: whenever the manifest line "K template" was loaded in an environment
\* that sets every variable the template references, the address of K is
\* the template with each reference $NAME replaced by the value of exactly
\* the variable NAME, the rest unchanged and nothing re-interpolated.
C6_InterpolationIsExact ==
    (IsCall("fetch") /\ AllReferencesSet(TemplateOf(file), environ))
        => /\ InManifest(K)
           /\ AddressOf(K) = Interpolate(TemplateOf(file), 1, environ)

\* C2: for a key that is not in the environment, a get(key) finding the key
\* in the cache returns the cached value without a backend fetch and leaves
\* the cache alone; a get(key) that resolves the key from the backend makes
\* one fetch and caches the value; so the successful resolutions of a key
\* have fetched at most once, exactly once when the key is cached.
C2_FetchedOnce ==
    [][ \A k \in Keys :
          (IsStep("get") /\ last'.keys = <<k>> /\ k \notin DOMAIN environ)
          => /\ k \in DOMAIN _cache
                  => /\ last'.fetches = <<>>
                     /\ last'.status = "ok"
                     /\ last'.value = _cache[k]
                     /\ _cache' = _cache
             /\ (k \notin DOMAIN _cache /\ last'.raw = "ok")
                  => /\ Len(last'.fetches) = 1
                     /\ k \in DOMAIN _cache'
                     /\ _cache'[k] = last'.value
             /\ resolved'[k] <= 1
             /\ resolved'[k] = 1 <=> k \in DOMAIN _cache'
      ]_vars

\* a second get(key) was served from the cache filled by the first
C2_Witness ==
    /\ IsCall("get")
    /\ last.keys[1] \notin DOMAIN environ
    /\ last.raw = "ok"
    /\ last.fetches = <<>>
    /\ resolved[last.keys[1]] = 1
    /\ last.keys[1] \in DOMAIN _cache
    /\ last.value = _cache[last.keys[1]]

\* C3: after a getmany call that returned, every storage path was fetched
\* exactly once if some requested key that is not in the environment has an
\* address with that path, and not at all otherwise.
C3_OneFetchPerPath ==
    (IsCall("getmany") /\ last.status = "ok")
        => \A path \in {p, q} :
             Cardinality(FetchesOf(path)) =
               IF \E i \in 1..Len(last.keys) :
                      /\ last.keys[i] \notin DOMAIN environ
                      /\ InManifest(last.keys[i])
                      /\ AddressParts(last.keys[i])[1] = path
               THEN 1 ELSE 0

\* C4: a get(key) of a key that is neither in the environment nor in the
\* cache, with a backend set, fetches the whole address when it has no colon
\* and returns the fetched value as it is; when the address is left:right it
\* fetches left and its outcome is that of indexing the fetched value by
\* right, for every right, the empty string included.
C4_AddressForms ==
    [][ \A k \in Keys :
          (/\ IsStep("get") /\ last'.keys = <<k>>
           /\ k \notin DOMAIN environ /\ k \notin DOMAIN _cache
           /\ secretfile' # None /\ DictHas(secretfile'._secretfile, k)
           /\ _BACKEND # None)
          => LET parts == split(DictGet(secretfile'._secretfile, k), ":")
                 one == <<[key |-> k, path |-> parts[1]]>>
             IN  /\ Len(parts) = 1
                      => /\ last'.fetches = one
                         /\ parts[1] \in DOMAIN secrets
                              => /\ last'.raw = "ok"
                                 /\ last'.value = secrets[parts[1]]
                 /\ Len(parts) = 2
                      => /\ last'.fetches = one
                         /\ parts[1] \in DOMAIN secrets
                              => LET ix == Index(secrets[parts[1]], parts[2])
                                 IN  /\ last'.raw = ix.status
                                     /\ ix.status = "ok" => last'.value = ix.value
      ]_vars

\* C5: resolving, by get, getmany or items, a key that is neither in the
\* environment nor in the cache and whose address has two or more colons
\* fails: the call raises, no backend fetch is made for the key, the key is
\* not cached and items does not yield it.
C5_TooManyColonsFails ==
    [][ \A k \in Keys :
          (/\ steps' = steps + 1
           /\ secretfile' # None
           /\ DictHas(secretfile'._secretfile, k)
           /\ Len(split(DictGet(secretfile'._secretfile, k), ":")) > 2
           /\ k \notin DOMAIN environ /\ k \notin DOMAIN _cache
           /\ \/ last'.op = "get" /\ last'.keys = <<k>>
              \/ last'.op = "getmany" /\ \E i \in 1..Len(last'.keys) : last'.keys[i] = k
              \/ last'.op = "items")
          => /\ last'.status # "ok"
             /\ \A i \in 1..Len(last'.fetches) : last'.fetches[i].key # k
             /\ k \notin DOMAIN _cache'
             /\ \A i \in 1..Len(last'.yielded) : last'.yielded[i][1] # k
      ]_vars

\* a get of a key whose address has two colons raised ValueError
C5_Witness ==
    /\ IsCall("get")
    /\ last.status = "ValueError"
    /\ InManifest(last.keys[1])
    /\ Len(AddressParts(last.keys[1])) = 3
    /\ last.keys[1] \notin DOMAIN environ
    /\ last.keys[1] \notin DOMAIN _cache
    /\ last.fetches = <<>>

\* the number of whitespace-separated tokens of a line
TokenCount(line) ==
    Cardinality({ i \in 1..Len(line) :
                    /\ line[i] \notin Whitespace
                    /\ i = 1 \/ line[i - 1] \in Whitespace })

\* a non-comment line with a wrong token count or an unset reference
Offending(line, env) ==
    /\ ~StartsWith(line, <<"#">>)
    /\ TokenCount(line) # 2 \/ ~AllReferencesSet(line, env)

\* C7: a call that read a manifest file with an offending line (a wrong
\* token count, or a reference to an unset variable) failed, left the
\* singleton unset and fetched nothing from the backend.
C7_LoadIsAllOrNothing ==
    (/\ last.loaded
     /\ file # NoFile
     /\ \E i \in 1..Len(file.lines) : Offending(file.lines[i], environ))
        => /\ last.status # "ok"
           /\ secretfile = None
           /\ last.fetches = <<>>

\* C8: the backend handle is unset or the backend of the first set_backend
\* call (the one of the module import included); every set_backend call
\* after the first fails and leaves the handle unchanged.
C8_BackendSetOnce ==
    [][ /\ _BACKEND' = None \/ _BACKEND' = firstBackend'
        /\ (IsStep("set_backend") /\ firstBackend # None)
             => /\ last'.status = "BackendAlreadySet"
                /\ _BACKEND' = _BACKEND
      ]_vars

\* a set_backend call with another backend was refused
C8_Witness ==
    /\ IsCall("set_backend")
    /\ last.status = "BackendAlreadySet"
    /\ last.value # _BACKEND
    /\ _BACKEND = firstBackend

\* C9: a get or a one-key getmany that has to fetch from the backend (the key
\* is not in the environment nor, for get, in the cache, and its address is
\* well formed) while no backend is set fails with the "backend not set"
\* error, without a fetch.
C9_BackendNotSetError ==
    \A k \in Keys :
      (/\ _BACKEND = None
       /\ InManifest(k)
       /\ k \notin DOMAIN environ
       /\ last.keys = <<k>>
       /\ \/ IsCall("get") /\ k \notin DOMAIN _cache /\ Len(AddressParts(k)) <= 2
          \/ IsCall("getmany") /\ Len(AddressParts(k)) = 2)
      => /\ last.status = "BackendNotSet"
         /\ last.fetches = <<>>

\* C10: a getmany call leaves the cache as it was, and a requested key that
\* is in the cache and not in the environment is resolved, when the call
\* returns, by a fetch of its storage path made in this call: its value is
\* the field of the store's present content.
C10_GetManyIgnoresCache ==
    [][ IsStep("getmany")
        => /\ _cache' = _cache
           /\ \A i \in 1..Len(last'.keys) :
                LET k == last'.keys[i]
                    parts == split(DictGet(secretfile'._secretfile, k), ":")
                IN  (k \in DOMAIN _cache /\ k \notin DOMAIN environ
                     /\ last'.status = "ok")
                    => /\ \E j \in 1..Len(last'.fetches) :
                              last'.fetches[j].path = parts[1]
                       /\ Ok(DictGet(last'.value.items, k))
                              = Index(secrets[parts[1]], parts[2])
      ]_vars

\* a getmany returned, for a cached key, a value other than the cached one
C10_Witness ==
    /\ IsCall("getmany")
    /\ last.status = "ok"
    /\ \E i \in 1..Len(last.keys) :
         /\ last.keys[i] \in DOMAIN _cache
         /\ last.keys[i] \notin DOMAIN environ
         /\ DictGet(last.value.items, last.keys[i]) # _cache[last.keys[i]]

\* C11: in a getmany call every requested key that is set in the
\* environment, with any value, is served from the environment: no backend
\* fetch is made for it, it cannot fail the call, and when the call returns
\* the result maps it to exactly its environment value.
C11_GetManyEnvironmentTier ==
    (IsCall("getmany") /\ secretfile # None)
        => /\ \A i \in 1..Len(last.keys) :
                last.keys[i] \in DOMAIN environ
                  => /\ FetchesFor(last.keys[i]) = {}
                     /\ last.status = "ok"
                          => DictGet(last.value.items, last.keys[i])
                                 = Str(environ[last.keys[i]])
           /\ (\A i \in 1..Len(last.keys) : last.keys[i] \in DOMAIN environ)
                  => last.status = "ok"

\* C12: when get(key, default) returned through "except KeyError", that is
\* returned the default, the key is in none of the environment, the cache
\* and the manifest, and no backend fetch was made: a failed fetch or an
\* absent field of a key of the manifest is raised to the caller.
C12_DefaultOnlyForUnknownKey ==
    (IsCall("get") /\ last.status = "ok" /\ last.raw = "KeyError")
        => /\ ~InManifest(last.keys[1])
           /\ last.keys[1] \notin DOMAIN environ
           /\ last.keys[1] \notin DOMAIN _cache
           /\ last.fetches = <<>>

\* the entries of the lines of a manifest file, comment lines left out
EntryLines(fp) == SelectSeq(fp.lines, LAMBDA l : ~StartsWith(l, <<"#">>))
KeyOfLine(l) == split(rstrip(l), " ")[1]
TemplateOfLine(l) == split(rstrip(l), " ")[2]

\* the keys of the entry lines, each at the place of its first line
RECURSIVE FirstAppearance(_, _)
FirstAppearance(ls, seen) ==
    IF ls = <<>> THEN <<>>
    ELSE IF KeyOfLine(Head(ls)) \in seen
         THEN FirstAppearance(Tail(ls), seen)
         ELSE <<KeyOfLine(Head(ls))>>
                  \o FirstAppearance(Tail(ls), seen \cup {KeyOfLine(Head(ls))})

\* the interpolated address of the last entry line of key
LastAddress(fp, key, env) ==
    LET ls == EntryLines(fp)
        n == CHOOSE i \in 1..Len(ls) :
                 /\ KeyOfLine(ls[i]) = key
                 /\ \A j \in (i + 1)..Len(ls) : KeyOfLine(ls[j]) # key
    IN  _replace_env(key, TemplateOfLine(ls[n]), env).value

\* C13: an items call that has just read the manifest yields the distinct
\* keys of the file in the order of their first lines, one pair each, up to
\* the first key whose resolution fails (all of them when the call
\* returns); the value of a key set in the environment is that value, and
\* the value of a key neither there nor in the cache is resolved from the
\* address of the key's last line.
C13_ItemsInManifestOrder ==
    [][ (IsStep("items") /\ last'.loaded /\ secretfile' # None)
        => LET expected == FirstAppearance(EntryLines(file), {})
               yielded == last'.yielded
           IN  /\ Len(yielded) <= Len(expected)
               /\ last'.status = "ok" => Len(yielded) = Len(expected)
               /\ \A i \in 1..Len(yielded) :
                    LET k == yielded[i][1]
                        parts == split(LastAddress(file, k, environ), ":")
                    IN  /\ k = expected[i]
                        /\ k \in DOMAIN environ => yielded[i][2] = Str(environ[k])
                        /\ (k \notin DOMAIN environ /\ k \notin DOMAIN _cache)
                             => /\ Len(parts) <= 2
                                /\ parts[1] \in DOMAIN secrets
                                /\ Len(parts) = 1 => yielded[i][2] = secrets[parts[1]]
                                /\ (Len(parts) = 2 /\ parts[2] # <<>>)
                                     => Ok(yielded[i][2])
                                            = Index(secrets[parts[1]], parts[2])
      ]_vars

\* items on the manifest "A p:f", "B p:g", "A p" yielded A first, resolved
\* from the address p of its last line, then B
C13_Witness ==
    /\ IsCall("items")
    /\ last.status = "ok"
    /\ last.loaded
    /\ file = File(<<LineA_pf, LineB_pg, LineA_p>>)
    /\ A \notin DOMAIN environ
    /\ last.yielded[1] = <<A, secrets[p]>>
    /\ last.yielded[2][1] = B
    /\ Len(last.yielded) = 2

----------------------------------------------------------------------------
(* The tokenizer of the manifest parser on its own: a file of one line,    *)
(* every line over LineChars, no variable set                              *)

LineChars == {"A", "p", " ", "\t", "#"}
TokenLines == SeqsUpTo(LineChars, MaxLineLen)

InitTokens ==
    /\ environ = <<>>
    /\ file \in { File(<<l \o <<"\n">>>>) : l \in TokenLines }
    /\ secrets = Store1
    /\ _BACKEND = None
    /\ firstBackend = None
    /\ secretfile = None
    /\ _cache = <<>>
    /\ last = Call("import", <<>>, None, "ok", None, <<>>, <<>>, FALSE, "ok")
    /\ resolved = [k \in Keys |-> 0]
    /\ reads = 0
    /\ steps = 0

NextTokens == Fetch

SpecTokens == InitTokens /\ [][NextTokens]_vars

\* the whitespace-separated tokens of a line
RECURSIVE Tokens(_)
Tokens(line) ==
    IF line = <<>> THEN <<>>
    ELSE IF Head(line) \in Whitespace THEN Tokens(Tail(line))
    ELSE LET n == CHOOSE n \in 1..Len(line) :
                      /\ \A i \in 1..n : line[i] \notin Whitespace
                      /\ n = Len(line) \/ line[n + 1] \in Whitespace
         IN  <<SubSeq(line, 1, n)>> \o Tokens(SubSeq(line, n + 1, Len(line)))

\* C14: reading a one-line manifest succeeds with no entry when the line
\* starts with '#'; otherwise it succeeds exactly when the line has two
\* whitespace-separated tokens, whatever whitespace separates or precedes
\* them, and the manifest is then the entry (first token, second token).
C14_TwoWhitespaceTokens ==
    (IsCall("fetch") /\ last.loaded)
        => LET line == file.lines[1]
               toks == Tokens(line)
           IN  IF StartsWith(line, <<"#">>)
               THEN /\ last.status = "ok"
                    /\ secretfile = Secretfile(<<>>)
               ELSE /\ last.status = "ok" <=> Len(toks) = 2
                    /\ Len(toks) = 2
                         => secretfile = Secretfile(<<<<toks[1], toks[2]>>>>)

----------------------------------------------------------------------------
(* Claims on the front end *)

Ignored(key) == \E i \in 1..Len(last.keys) : last.keys[i] = key
Printed(key) == \E i \in 1..Len(last.yielded) : last.yielded[i].export = key

\* C15: in a read command no backend fetch is made for an ignored key, an
\* ignored key is not printed, and when every key of the manifest is
\* ignored the command succeeds.
C15_IgnoredKeysAreNotResolved ==
    (IsCall("read") /\ secretfile # None)
        => /\ \A k \in Keys :
                Ignored(k) => FetchesFor(k) = {} /\ ~Printed(k)
           /\ (\A i \in 1..Len(secretfile._secretfile) :
                   Ignored(secretfile._secretfile[i][1]))
                => last.status = "ok"

\* C16: a read command either prints one export line for every key of the
\* manifest that is not ignored, in manifest order, or fails having
\* printed nothing.
C16_NoPartialOutput ==
    (IsCall("read") /\ secretfile # None)
        => \/ /\ last.status = "ok"
              /\ [i \in 1..Len(last.yielded) |-> last.yielded[i].export]
                   = SelectSeq(DictKeys(secretfile._secretfile),
                               LAMBDA k : ~Ignored(k))
           \/ /\ last.status # "ok"
              /\ last.yielded = <<>>

----------------------------------------------------------------------------
(* Claims on the resolution cache *)

\* C18: a get(key) call changes the cache only by adding the entry of key,
\* with the value it returns, after a resolution that fetched from the
\* backend and succeeded: a get that fails (manifest not loaded, key not in
\* the manifest, malformed address, no backend, failed fetch, absent field)
\* and a get served from the environment leave the cache as it was.  In
\* every step, a key that enters the cache is a key outside the environment
\* that a single-key resolution of get, items or read fetched in that step.
C18_CacheOnlyOnSuccess ==
    [][ /\ \A k \in Keys :
             (IsStep("get") /\ last'.keys = <<k>>)
             => /\ last'.raw # "ok" => _cache' = _cache
                /\ k \in DOMAIN environ => _cache' = _cache
                /\ _cache' # _cache
                     => /\ last'.raw = "ok"
                        /\ Len(last'.fetches) = 1
                        /\ k \notin DOMAIN _cache
                        /\ _cache' = Put(_cache, k, last'.value)
        /\ \A k \in DOMAIN _cache' \ DOMAIN _cache :
             /\ steps' = steps + 1
             /\ last'.op \in {"get", "items", "read"}
             /\ k \notin DOMAIN environ
             /\ \E i \in 1..Len(last'.fetches) : last'.fetches[i].key = k
      ]_vars

\* a get fetched from the backend, failed on the absent field or path and
\* left nothing in the cache
C18_Witness ==
    /\ IsCall("get")
    /\ last.raw = "KeyError"
    /\ last.fetches # <<>>
    /\ InManifest(last.keys[1])
    /\ last.keys[1] \notin DOMAIN _cache

\* C19: every step keeps every cache entry with its value, whatever the
\* step does to the store or to the environment.
C19_CacheOnlyGrows ==
    [][ \A k \in DOMAIN _cache :
          /\ k \in DOMAIN _cache'
          /\ _cache'[k] = _cache[k]
      ]_vars

\* a get returned the cached value of a key whose field in the store has
\* changed since it was cached
C19_Witness ==
    /\ IsCall("get")
    /\ last.fetches = <<>>
    /\ last.keys[1] \in DOMAIN _cache
    /\ last.keys[1] \notin DOMAIN environ
    /\ last.value = _cache[last.keys[1]]
    /\ InManifest(last.keys[1])
    /\ Len(AddressParts(last.keys[1])) = 2
    /\ AddressParts(last.keys[1])[1] \in DOMAIN secrets
    /\ Index(secrets[AddressParts(last.keys[1])[1]], AddressParts(last.keys[1])[2])
         # Ok(_cache[last.keys[1]])

----------------------------------------------------------------------------
(* Claims on getmany under store writes *)

\* the requested keys that the manifest sf places on path
GroupOf(sf, keys, path) ==
    { k \in Keys : /\ \E i \in 1..Len(keys) : keys[i] = k
                   /\ DictHas(sf, k)
                   /\ split(DictGet(sf, k), ":")[1] = path }

\* every key of ks has in items the value of its field in the content that
\* the store S holds for path
ValuesFrom(S, sf, ks, path, items) ==
    /\ path \in DOMAIN S
    /\ \A k \in ks :
         /\ DictHas(items, k)
         /\ Index(S[path], split(DictGet(sf, k), ":")[2]) = Ok(DictGet(items, k))

\* C17: when a getmany call returns and the requested keys placed on one
\* storage path are none of them in the environment, the path was fetched
\* exactly once in the call and all their values are the fields of one single
\* content of that path (the one before or the one after a store write that
\* fell inside the call).
C17_GroupReadIsConsistent ==
    [][ (/\ steps' = steps + 1
         /\ last'.op = "getmany+storewrite"
         /\ last'.status = "ok")
        => \A k0 \in Keys :
             LET sf == secretfile'._secretfile
                 path == split(DictGet(sf, k0), ":")[1]
                 ks == GroupOf(sf, last'.keys, path)
             IN  (/\ DictHas(sf, k0)
                  /\ k0 \in ks
                  /\ ks \cap DOMAIN environ = {})
                 => /\ Cardinality({ i \in 1..Len(last'.fetches) :
                                       last'.fetches[i].path = path }) = 1
                    /\ \E S \in {secrets, secrets'} :
                         ValuesFrom(S, sf, ks, path, last'.value.items)
      ]_vars

\* a getmany of two keys on one path returned, the store having been written
\* between the two keys: the second key has the value of the content fetched
\* for the first, which is not what the store holds now
C17_Witness ==
    /\ IsCall("getmany+storewrite")
    /\ last.status = "ok"
    /\ last.keys = <<A, B>>
    /\ DOMAIN environ \cap {A, B} = {}
    /\ AddressParts(A)[1] = AddressParts(B)[1]
    /\ Len(last.fetches) = 1
    /\ AddressParts(B)[1] \in DOMAIN secrets
    /\ Index(secrets[AddressParts(B)[1]], AddressParts(B)[2])
         # Ok(DictGet(last.value.items, B))

----------------------------------------------------------------------------
(* Claims on the manifest singleton *)

\* the calls that go through Secretfile.fetch()
ManifestCalls == {"fetch", "get", "getmany", "items", "read"}

\* C20 as stated: the manifest file is read at most once in a process, failed
\* reads included.
C20_ManifestReadAtMostOnce == reads <= 1

\* C20 amended: the manifest file is read only by a call made while the
\* singleton is unset, once per such call; a read that fails leaves the
\* singleton unset and fails the call; a read that succeeds installs the
\* mapping parsed from the file and the environment as they are then; and once
\* the singleton is set no step reads the file or changes the mapping, whatever
\* happens to the file and to the environment, every backend fetch of a call
\* being at the path that this mapping gives to the key.
C20_ManifestLoadedOnce ==
    [][ /\ secretfile # None => (secretfile' = secretfile /\ reads' = reads)
        /\ reads' # reads
             => /\ secretfile = None
                /\ reads' = reads + 1
                /\ steps' = steps + 1
                /\ last'.op \in ManifestCalls
                /\ last'.loaded
        /\ (reads' # reads /\ secretfile' = None)
             => /\ read_secretfile(file, environ).status # "ok"
                /\ last'.status = read_secretfile(file, environ).status
        /\ (secretfile = None /\ secretfile' # None)
             => /\ reads' = reads + 1
                /\ read_secretfile(file, environ).status = "ok"
                /\ secretfile' = Secretfile(read_secretfile(file, environ).value)
        /\ (steps' = steps + 1 /\ last'.op \in ManifestCalls)
             => \A i \in 1..Len(last'.fetches) :
                  /\ secretfile' # None
                  /\ DictHas(secretfile'._secretfile, last'.fetches[i].key)
                  /\ split(DictGet(secretfile'._secretfile, last'.fetches[i].key),
                           ":")[1] = last'.fetches[i].path
      ]_vars

\* a call fetched at the address of the loaded mapping without reading the
\* file, while the file and the environment as they are now give the key
\* another address or none
C20_Witness ==
    /\ last.op \in {"get", "getmany", "items"}
    /\ ~last.loaded
    /\ reads = 1
    /\ secretfile # None
    /\ last.fetches # <<>>
    /\ LET now == read_secretfile(file, environ)
           key == last.fetches[1].key
       IN  \/ now.status # "ok"
           \/ ~DictHas(now.value, key)
           \/ DictGet(now.value, key) # AddressOf(key)

====
